---- MODULE Spec2Model ----
(***************************************************************************)
(* Model of the MCP keyword search server (server.py) and of the           *)
(* standalone line scanner (search_tool.py).                               *)
(*                                                                         *)
(* Text is a sequence of character tokens.  "a"/"A" are an ASCII case       *)
(* pair, "SIGMA" is U+03A3, "sigma" U+03C3, "fsigma" U+03C2 (the final      *)
(* form), "." and "(" are the regular-expression metacharacters the model  *)
(* covers, "NL" is the line terminator.                                    *)
(***************************************************************************)
EXTENDS Integers, Sequences, FiniteSets, TLC

VARIABLES pc, body, variant, jsonrpc, req_id, callsite, args, validated,
          fsOps, idx, matches, response, lib

vars == <<pc, body, variant, jsonrpc, req_id, callsite, args, validated,
          fsOps, idx, matches, response, lib>>

(* ------------------------------ bounds -------------------------------- *)
MaxLines == 2
MaxLineLen == 2
MaxKeyLen == 1

(* ------------------------------- text --------------------------------- *)
AsciiChars == {"a", "A"}
UnicodeChars == {"a", "A", "SIGMA"}
MetaChars == {".", "("}

\* all sequences over S of length at most n
StrUpTo(S, n) == UNION {[1..k -> S] : k \in 0..n}

\* Python str.lower() on a single character that needs no context
LowerChar(c) ==
  CASE c = "A" -> "a"
    [] c = "SIGMA" -> "sigma"
    [] OTHER -> c

Cased(c) == c \in {"a", "A", "SIGMA", "sigma", "fsigma"}
CaseIgnorable(c) == c = "."

\* the nearest character before position i that is not case-ignorable is cased
RECURSIVE CasedBefore(_, _)
CasedBefore(s, i) ==
  IF i < 1 THEN FALSE
  ELSE IF CaseIgnorable(s[i]) THEN CasedBefore(s, i - 1)
  ELSE Cased(s[i])

\* the nearest character after position i that is not case-ignorable is cased
RECURSIVE CasedAfter(_, _)
CasedAfter(s, i) ==
  IF i > Len(s) THEN FALSE
  ELSE IF CaseIgnorable(s[i]) THEN CasedAfter(s, i + 1)
  ELSE Cased(s[i])

\* str.lower(): a capital sigma becomes the final form when it ends a word
Lower(s) ==
  [i \in 1..Len(s) |->
     IF s[i] = "SIGMA"
     THEN IF CasedBefore(s, i - 1) /\ ~CasedAfter(s, i + 1)
          THEN "fsigma" ELSE "sigma"
     ELSE LowerChar(s[i])]

\* needle in hay (Python's substring test)
Contains(hay, needle) ==
  \E o \in 0..(Len(hay) - Len(needle)) :
     \A j \in 1..Len(needle) : hay[o + j] = needle[j]

\* number of offsets at which needle occurs in hay
Occurrences(hay, needle) ==
  Cardinality({o \in 0..(Len(hay) - Len(needle)) :
                 \A j \in 1..Len(needle) : hay[o + j] = needle[j]})

\* line.rstrip("\n")
RECURSIVE RStripNL(_)
RStripNL(s) ==
  IF Len(s) > 0 /\ s[Len(s)] = "NL" THEN RStripNL(SubSeq(s, 1, Len(s) - 1))
  ELSE s

\* the raw line the file iterator yields for a line of the given content
RawLine(content) == content \o <<"NL">>

(* ------------------------- regular expressions ------------------------ *)
\* re.compile succeeds: an opening parenthesis is never closed in the alphabet
RegexValid(pattern) == \A j \in 1..Len(pattern) : pattern[j] # "("

\* case folding used by re.IGNORECASE for a single character
RegexFold(c) ==
  CASE c = "A" -> "a"
    [] c \in {"SIGMA", "fsigma"} -> "sigma"
    [] OTHER -> c

RegexCharMatch(p, c, ignorecase) ==
  IF p = "." THEN c # "NL"
  ELSE IF ignorecase THEN RegexFold(p) = RegexFold(c)
  ELSE p = c

\* pattern.search(line)
RegexSearch(pattern, line, ignorecase) ==
  \E o \in 0..(Len(line) - Len(pattern)) :
     \A j \in 1..Len(pattern) : RegexCharMatch(pattern[j], line[o + j], ignorecase)

(* ------------------------ search_tool.search_in_file ------------------ *)
\* the predicate _matches selected by the flags
LineMatches(raw, keyword, case_insensitive, use_regex) ==
  IF use_regex THEN RegexSearch(keyword, raw, case_insensitive)
  ELSE IF case_insensitive THEN Contains(Lower(raw), Lower(keyword))
  ELSE Contains(raw, keyword)

\* {'line': idx, 'text': raw_line.rstrip('\n')}
MatchRecord(i, raw) == [line |-> i, text |-> RStripNL(raw)]

\* the loop of search_in_file over lines i..Len(file), appending to acc
RECURSIVE ScanFrom(_, _, _, _, _, _)
ScanFrom(file, i, acc, keyword, ci, rx) ==
  IF i > Len(file) THEN acc
  ELSE ScanFrom(file, i + 1,
         IF LineMatches(RawLine(file[i]), keyword, ci, rx)
         THEN Append(acc, MatchRecord(i, RawLine(file[i])))
         ELSE acc,
         keyword, ci, rx)

\* search_in_file(path, keyword, case_insensitive, use_regex) on a readable file
SearchInFile(file, keyword, ci, rx) ==
  IF rx /\ ~RegexValid(keyword)
  THEN [kind |-> "ValueError", matches |-> <<>>]
  ELSE [kind |-> "ok", matches |-> ScanFrom(file, 1, <<>>, keyword, ci, rx)]

NoLib == [called |-> FALSE, file |-> <<>>, keyword |-> <<>>, ci |-> FALSE,
          rx |-> FALSE, out |-> [kind |-> "none", matches |-> <<>>]]

(* ------------------------------ JSON values --------------------------- *)
\* A JSON value of each key is a record with a type tag t; the payload is
\* meaningful only for the tag that carries it.
Absent(v) == v.t = "absent"

\* file_path values: absent, "", two path strings, a non-string (an integer)
PathVals ==
  {[t |-> "absent", s |-> ""], [t |-> "str", s |-> ""],
   [t |-> "str", s |-> "exists.txt"], [t |-> "str", s |-> "missing.txt"],
   [t |-> "int", s |-> ""]}

\* keyword values: absent, "", the non-empty keywords, a non-string (an integer)
KeywordVals ==
  {[t |-> "absent", s |-> <<>>], [t |-> "int", s |-> <<>>]}
  \cup {[t |-> "str", s |-> k] : k \in StrUpTo(AsciiChars, MaxKeyLen)}

\* the argument mapping of a search: {file_path, keyword}
ArgMaps == [file_path : PathVals, keyword : KeywordVals]
EmptyArgs == [file_path |-> [t |-> "absent", s |-> ""],
              keyword |-> [t |-> "absent", s |-> <<>>]]

\* values of `args`, of `params` in a Direct body, of `params.arguments`
ArgVals ==
  {[t |-> x, m |-> EmptyArgs] : x \in {"absent", "null", "list"}}
  \cup {[t |-> "map", m |-> a] : a \in ArgMaps}

NameVals == {"<absent>", "search_keyword", "other_tool"}

\* values of `params`: absent, null, a list, or a mapping holding any of the
\* keys name, arguments (RPC style) and file_path, keyword (Direct style)
NoParams == [name |-> "<absent>", arguments |-> [t |-> "absent", m |-> EmptyArgs],
             direct |-> EmptyArgs]
ParamVals ==
  {[t |-> x, m |-> NoParams] : x \in {"absent", "null", "list"}}
  \cup {[t |-> "map", m |-> [name |-> n, arguments |-> a, direct |-> EmptyArgs]] :
          n \in NameVals, a \in ArgVals}
  \cup {[t |-> "map", m |-> [name |-> "<absent>",
                              arguments |-> [t |-> "absent", m |-> EmptyArgs],
                              direct |-> a]] : a \in ArgMaps}

\* values of `method`, `jsonrpc`, `id`, `tool`; "<absent>" marks a missing key
\* and "<null>" the JSON null
MethodVals == {"<absent>", "<null>", "initialize", "tools/list", "tools/call",
               "other/method"}
JsonrpcVals == {"<absent>", "1.0"}
IdVals == {"<absent>", "<null>", "7"}
ToolVals == {"<absent>", "", "search_keyword", "other_tool"}

\* the parsed request bodies: a non-mapping, the bodies with a `method` key,
\* and the bodies without one
NonMappingBody ==
  [isMap |-> FALSE, method |-> "<absent>", jsonrpc |-> "<absent>", id |-> "<absent>",
   params |-> [t |-> "absent", m |-> NoParams], tool |-> "<absent>",
   args |-> [t |-> "absent", m |-> EmptyArgs]]
ValidArgs == [t |-> "map", m |-> [file_path |-> [t |-> "str", s |-> "exists.txt"],
                                  keyword |-> [t |-> "str", s |-> <<"a">>]]]
MethodBodies ==
  [isMap : {TRUE}, method : MethodVals \ {"<absent>"}, jsonrpc : JsonrpcVals,
   id : IdVals, params : ParamVals, tool : {"<absent>"},
   args : {[t |-> "absent", m |-> EmptyArgs]}]
  \cup
  [isMap : {TRUE}, method : MethodVals \ {"<absent>"}, jsonrpc : JsonrpcVals,
   id : IdVals, params : ParamVals, tool : {"search_keyword"}, args : {ValidArgs}]
ToolBodies ==
  [isMap : {TRUE}, method : {"<absent>"}, jsonrpc : {"<absent>"}, id : {"<absent>"},
   params : {v \in ParamVals : v.m.name = "<absent>" /\ Absent(v.m.arguments)},
   tool : ToolVals, args : ArgVals]
Bodies == {NonMappingBody} \cup MethodBodies \cup ToolBodies

\* Python truthiness of an argument value and of a params value
TruthyArgs(v) == v.t = "list" \/ (v.t = "map" /\ v.m # EmptyArgs)
TruthyParams(v) == v.t = "list" \/ (v.t = "map" /\ v.m # NoParams)

\* the params value seen as the argument value a search receives
ParamsAsArgs(v) == [t |-> v.t, m |-> v.m.direct]

EmptyMapping == [t |-> "map", m |-> EmptyArgs]

(* ------------------------------ responses ----------------------------- *)
NoMessage == [fmt |-> "none", text |-> "", arg |-> ""]
NoResult == [type |-> "none", count |-> 0, items |-> <<>>]
NoResponse ==
  [kind |-> "none", keys |-> {}, jsonrpc |-> "", id |-> "", result |-> NoResult,
   code |-> 0, message |-> NoMessage, matches |-> <<>>, count |-> 0]

\* {"jsonrpc": jsonrpc, "id": req_id, "result": result}
RpcResult(j, i, r) ==
  [NoResponse EXCEPT !.kind = "rpc", !.keys = {"jsonrpc", "id", "result"},
                     !.jsonrpc = j, !.id = i, !.result = r]

\* {"jsonrpc": jsonrpc, "id": req_id, "error": {"code": code, "message": message}}
RpcError(j, i, c, msg) ==
  [NoResponse EXCEPT !.kind = "rpc", !.keys = {"jsonrpc", "id", "error"},
                     !.jsonrpc = j, !.id = i, !.code = c, !.message = msg]

\* {"matches": matches, "count": len(matches)} returned as the response body
DirectResult(r) ==
  [NoResponse EXCEPT !.kind = "direct", !.keys = {"matches", "count"},
                     !.matches = r.matches, !.count = r.count]

\* an HTTPException leaving mcp_endpoint: the error descriptor of the host
HttpError(status, detail) ==
  [NoResponse EXCEPT !.kind = "http_error", !.keys = {"status", "detail"},
                     !.code = status, !.message = detail]

\* any other exception leaving mcp_endpoint
Unhandled(exc) ==
  [NoResponse EXCEPT !.kind = "unhandled", !.message = [fmt |-> "exception",
                                                          text |-> exc, arg |-> ""]]

Detail(text, arg) == [fmt |-> "detail", text |-> text, arg |-> arg]
\* str(e.detail)
StrOfDetail(d) == [d EXCEPT !.fmt = "str(detail)"]
Plain(text, arg) == [fmt |-> "plain", text |-> text, arg |-> arg]

\* how an f-string renders a key's value
Rendered(v) == CASE v = "<absent>" -> "None" [] v = "<null>" -> "None" [] OTHER -> v

BadRequest == 400
InternalError == 500
MethodNotFound == -32601

(* ------------------------------ file system --------------------------- *)
ExistingPaths == {"exists.txt"}
Lines == StrUpTo(AsciiChars, MaxLineLen)
Files == UNION {[1..n -> Lines] : n \in 0..MaxLines}
Keywords == StrUpTo(AsciiChars \cup MetaChars, MaxKeyLen)
UnicodeFiles == UNION {[1..n -> StrUpTo(UnicodeChars, MaxLineLen)] : n \in 0..MaxLines}
UnicodeKeywords == StrUpTo(UnicodeChars, MaxKeyLen)

\* enumerate(f, start=1)
EnumerateStart == 1
LinesRead == Len(SelectSeq(fsOps, LAMBDA op : op = "read"))

(* -------------------------------- state ------------------------------- *)
NoArgs == [t |-> "absent", m |-> EmptyArgs]

Init ==
  /\ pc = "idle"
  /\ body = NonMappingBody
  /\ variant = "none"
  /\ jsonrpc = ""
  /\ req_id = ""
  /\ callsite = "none"
  /\ args = NoArgs
  /\ validated = FALSE
  /\ fsOps = <<>>
  /\ idx = 0
  /\ matches = <<>>
  /\ response = NoResponse
  /\ lib = NoLib

\* the host delivers a parsed request body to mcp_endpoint
Receive ==
  /\ pc = "idle"
  /\ \E b \in Bodies : body' = b
  /\ pc' = "dispatch"
  /\ UNCHANGED <<lib, variant, jsonrpc, req_id, callsite, args, validated, fsOps, idx,
                 matches, response>>

\* mcp_endpoint returns or raises: the request is over
Finished(r) ==
  /\ pc' = "done"
  /\ response' = r

\* mcp_endpoint calls search_keyword_tool(a) from the given call site
CallSearch(site, a) ==
  /\ pc' = "validate"
  /\ callsite' = site
  /\ args' = a
  /\ response' = response

\* body.get("jsonrpc", "2.0") and body.get("id")
JsonrpcFixed(b) == "2.0"
JsonrpcOf(b) == IF b.jsonrpc = "<absent>" THEN "2.0" ELSE b.jsonrpc
IdOf(b) == IF b.id = "<absent>" THEN "<null>" ELSE b.id

\* the branch of mcp_endpoint taken when the body holds a `method` key
DispatchRpc ==
  LET method == body.method
      j == JsonrpcOf(body)
      i == IdOf(body)
      params == IF Absent(body.params) THEN [t |-> "map", m |-> NoParams]
                ELSE body.params
  IN /\ variant' = "rpc"
     /\ jsonrpc' = j
     /\ req_id' = i
     /\ IF method = "initialize"
        THEN /\ Finished(RpcResult(j, i, [NoResult EXCEPT !.type = "initialize"]))
             /\ UNCHANGED <<callsite, args>>
        ELSE IF method = "tools/list"
        THEN /\ Finished(RpcResult(j, i, [NoResult EXCEPT !.type = "tools/list"]))
             /\ UNCHANGED <<callsite, args>>
        ELSE IF method = "tools/call"
        THEN IF params.t # "map"
             THEN /\ Finished(Unhandled("AttributeError"))
                  /\ UNCHANGED <<callsite, args>>
             ELSE LET tool_name == params.m.name
                      tool_args == IF Absent(params.m.arguments) THEN EmptyMapping
                                   ELSE params.m.arguments
                  IN IF tool_name = "search_keyword"
                     THEN CallSearch("rpc", tool_args)
                     ELSE /\ Finished(RpcError(j, i, MethodNotFound,
                                        Plain("Unknown tool: ", Rendered(tool_name))))
                          /\ UNCHANGED <<callsite, args>>
        ELSE /\ Finished(RpcError(j, i, MethodNotFound,
                           Plain("Method not found: ", Rendered(method))))
             /\ UNCHANGED <<callsite, args>>

\* body.get("args") or body.get("params") or {}
DirectArgsByPresence(b) ==
  IF ~Absent(b.args) THEN b.args
  ELSE IF ~Absent(b.params) THEN ParamsAsArgs(b.params)
  ELSE EmptyMapping
DirectArgs(b) ==
  IF TruthyArgs(b.args) THEN b.args
  ELSE IF TruthyParams(b.params) THEN ParamsAsArgs(b.params)
  ELSE EmptyMapping

\* the rest of mcp_endpoint, taken when the body holds no `method` key
DispatchDirect ==
  /\ variant' = "direct"
  /\ UNCHANGED <<jsonrpc, req_id>>
  /\ IF ~body.isMap
     THEN /\ Finished(HttpError(BadRequest, Detail("Invalid request body", "")))
          /\ UNCHANGED <<callsite, args>>
     ELSE LET tool == body.tool
              a == DirectArgs(body)
          IN IF tool \in {"<absent>", ""}
             THEN /\ Finished(HttpError(BadRequest,
                                Detail("Missing 'tool' in request body", "")))
                  /\ UNCHANGED <<callsite, args>>
             ELSE IF tool = "search_keyword"
             THEN CallSearch("direct", a)
             ELSE /\ Finished(HttpError(BadRequest, Detail("Unknown tool: ", tool)))
                  /\ UNCHANGED <<callsite, args>>

\* isinstance(body, dict) and "method" in body
IsRpcBodyByValue(b) == b.isMap /\ b.method \notin {"<absent>", "<null>"}
IsRpcBody(b) == b.isMap /\ b.method # "<absent>"

\* mcp_endpoint up to its return, its raise, or its call of search_keyword_tool
Dispatch ==
  /\ pc = "dispatch"
  /\ IF IsRpcBody(body) THEN DispatchRpc ELSE DispatchDirect
  /\ UNCHANGED <<body, validated, fsOps, idx, matches, lib>>

(* ------------------------- search_keyword_tool ------------------------ *)
\* what mcp_endpoint makes of an HTTPException raised by search_keyword_tool:
\* the RPC call site catches it, the Direct call site lets it through
RaisedAsInternalRpcError(status, detail) ==
  IF callsite = "rpc"
  THEN RpcError(jsonrpc, req_id, -32603, StrOfDetail(detail))
  ELSE HttpError(status, detail)
RaisedWithPartial(status, detail) ==
  IF callsite = "rpc"
  THEN [RpcError(jsonrpc, req_id, status, StrOfDetail(detail))
          EXCEPT !.keys = @ \cup {"result"},
                 !.result = [type |-> "text", count |-> Len(matches),
                             items |-> matches]]
  ELSE [HttpError(status, detail) EXCEPT !.matches = matches,
                                         !.count = Len(matches)]
Raised(status, detail) ==
  IF callsite = "rpc"
  THEN RpcError(jsonrpc, req_id, status, StrOfDetail(detail))
  ELSE HttpError(status, detail)

\* what mcp_endpoint makes of the value search_keyword_tool returns
Returned(r) ==
  IF callsite = "rpc"
  THEN RpcResult(jsonrpc, req_id,
                 [type |-> "text", count |-> r.count, items |-> r.matches])
  ELSE DirectResult(r)

\* Python truthiness of the file_path and keyword values
TruthyPath(v) == v.t = "int" \/ (v.t = "str" /\ v.s # "")
TruthyKeyword(v) == v.t = "int" \/ (v.t = "str" /\ v.s # <<>>)

\* not file_path or not keyword
ArgsMissingPathOnly(a) == ~TruthyPath(a.file_path)
ArgsMissing(a) == ~TruthyPath(a.file_path) \/ ~TruthyKeyword(a.keyword)

\* args.get(...) and the check of both arguments
Validate ==
  /\ pc = "validate"
  /\ IF args.t # "map"
     THEN /\ Finished(Unhandled("AttributeError"))
          /\ UNCHANGED validated
     ELSE IF ArgsMissing(args.m)
     THEN /\ Finished(Raised(BadRequest,
                        Detail("Missing 'file_path' or 'keyword' in args", "")))
          /\ UNCHANGED validated
     ELSE /\ pc' = "exists"
          /\ validated' = TRUE
          /\ UNCHANGED response
  /\ UNCHANGED <<body, variant, jsonrpc, req_id, callsite, args, fsOps, idx,
                 matches, lib>>

\* p.exists()
ExistsAlways(path) == TRUE
Exists(path) == path \in ExistingPaths

\* pathlib.Path(file_path) and the existence check
PathExists ==
  /\ pc = "exists"
  /\ IF args.m.file_path.t # "str"
     THEN /\ Finished(Unhandled("TypeError"))
          /\ UNCHANGED fsOps
     ELSE /\ fsOps' = Append(fsOps, "exists")
          /\ IF Exists(args.m.file_path.s)
             THEN /\ pc' = "open"
                  /\ UNCHANGED response
             ELSE Finished(Raised(BadRequest,
                             Detail("File not found: ", args.m.file_path.s)))
  /\ UNCHANGED <<body, variant, jsonrpc, req_id, callsite, args, validated, idx,
                 matches, lib>>

\* p.open(...): the file opens, or the open fails and the failure is caught
OpenFile ==
  /\ pc = "open"
  /\ fsOps' = Append(fsOps, "open")
  /\ \/ /\ pc' = "scan"
        /\ idx' = EnumerateStart - 1
        /\ matches' = <<>>
        /\ UNCHANGED response
     \/ /\ Finished(Raised(InternalError, Detail("<exception text>", "")))
        /\ UNCHANGED <<idx, matches>>
  /\ UNCHANGED <<body, variant, jsonrpc, req_id, callsite, args, validated, lib>>

\* keyword.lower() in line.lower()
ToolLineMatches(raw, keyword) == Contains(Lower(raw), Lower(keyword))

\* {"line": i, "text": line.rstrip("\n")}
ToolMatchRecordZeroBased(i, raw) == [line |-> i - 1, text |-> RStripNL(raw)]
ToolMatchRecord(i, raw) == [line |-> i, text |-> RStripNL(raw)]

\* one pass of the loop body on the next line of the file
ReadLine ==
  /\ pc = "scan"
  /\ LinesRead < MaxLines
  /\ fsOps' = Append(fsOps, "read")
  /\ \E content \in Lines :
       LET raw == RawLine(content)
           i == idx + 1
       IN IF args.m.keyword.t # "str"
          THEN /\ Finished(Raised(InternalError, Detail("<exception text>", "")))
               /\ UNCHANGED <<idx, matches>>
          ELSE /\ idx' = i
               /\ matches' = IF ToolLineMatches(raw, args.m.keyword.s)
                             THEN Append(matches, ToolMatchRecord(i, raw))
                             ELSE matches
               /\ UNCHANGED <<pc, response>>
  /\ UNCHANGED <<body, variant, jsonrpc, req_id, callsite, args, validated, lib>>

\* reading the file fails part-way: the exception is caught and re-raised
ReadFails ==
  /\ pc = "scan"
  /\ fsOps' = Append(fsOps, "read")
  /\ Finished(Raised(InternalError, Detail("<exception text>", "")))
  /\ UNCHANGED <<body, variant, jsonrpc, req_id, callsite, args, validated, idx,
                 matches, lib>>

\* {"matches": matches, "count": len(matches)}
SearchResult(m) == [matches |-> m, count |-> Len(m)]

\* the file is exhausted: search_keyword_tool returns
EndOfFile ==
  /\ pc = "scan"
  /\ Finished(Returned(SearchResult(matches)))
  /\ UNCHANGED <<body, variant, jsonrpc, req_id, callsite, args, validated, fsOps,
                 idx, matches, lib>>

\* every entity of the request is discarded once the response is produced
Discard ==
  /\ pc \in {"done", "returned"}
  /\ pc' = "idle"
  /\ body' = NonMappingBody
  /\ variant' = "none"
  /\ jsonrpc' = ""
  /\ req_id' = ""
  /\ callsite' = "none"
  /\ args' = NoArgs
  /\ validated' = FALSE
  /\ fsOps' = <<>>
  /\ idx' = 0
  /\ matches' = <<>>
  /\ response' = NoResponse
  /\ lib' = NoLib

(* --------------------------- search_in_file --------------------------- *)
\* a caller of the scanning primitive: search_in_file on a readable file
SearchCall(files, keywords) ==
  /\ pc = "idle"
  /\ \E f \in files, k \in keywords, ci \in BOOLEAN, rx \in BOOLEAN :
       lib' = [called |-> TRUE, file |-> f, keyword |-> k, ci |-> ci, rx |-> rx,
               out |-> SearchInFile(f, k, ci, rx)]
  /\ pc' = "returned"
  /\ UNCHANGED <<body, variant, jsonrpc, req_id, callsite, args, validated,
                 fsOps, idx, matches, response>>

SearchInFileCall == SearchCall(Files, Keywords)
SearchInFileUnicodeCall == SearchCall(UnicodeFiles, UnicodeKeywords)

Next ==
  \/ Receive
  \/ Dispatch
  \/ Validate
  \/ PathExists
  \/ OpenFile
  \/ ReadLine
  \/ ReadFails
  \/ EndOfFile
  \/ Discard
  \/ SearchInFileCall

Spec == Init /\ [][Next]_vars

NextUnicode == SearchInFileUnicodeCall

SpecUnicode == Init /\ [][NextUnicode]_vars

(* ------------------------------ properties ---------------------------- *)
IsRpcErrorResponse(r) == r.kind = "rpc" /\ "error" \in r.keys
IsErrorResponse(r) == r.kind = "http_error" \/ IsRpcErrorResponse(r)
IsSuccessResponse(r) ==
  r.kind = "direct" \/ (r.kind = "rpc" /\ "result" \in r.keys)
HasMethod(b) == b.isMap /\ b.method # "<absent>"

\* the records are numbered strictly ascending within lo..hi
WellNumbered(m, lo, hi) ==
  /\ \A k \in 1..Len(m) : m[k].line \in lo..hi
  /\ \A k \in 1..(Len(m) - 1) : m[k].line < m[k + 1].line

\* C1: mcp_endpoint never raises: every body with a `method` key gets an RPC
\* envelope and every other body gets a Direct result or an error descriptor
\* with a status code; no exception escapes unhandled.
C1_NeverRaises ==
  pc = "done" =>
    IF HasMethod(body) THEN response.kind = "rpc"
    ELSE response.kind \in {"direct", "http_error"}

\* C2 (as stated): a failed tools/call of search_keyword carries a negative
\* error code outside the reserved range -32768..-32000.
C2_NegativeCode ==
  (pc = "done" /\ callsite = "rpc" /\ IsRpcErrorResponse(response)) =>
    /\ response.code < 0
    /\ ~(response.code >= -32768 /\ response.code <= -32000)
    /\ response.message.text # ""

\* C2 (amended): a failed tools/call of search_keyword carries the HTTP-style
\* status of the failure as its code, 400 for a missing argument or a missing
\* file and 500 for an internal failure, which is positive and outside the
\* reserved range, and its message is the string form of the error detail.
C2_StatusCode ==
  (pc = "done" /\ callsite = "rpc" /\ IsRpcErrorResponse(response)) =>
    /\ response.code = (IF "open" \in {fsOps[k] : k \in 1..Len(fsOps)}
                        THEN 500 ELSE 400)
    /\ response.code > 0
    /\ ~(response.code >= -32768 /\ response.code <= -32000)
    /\ response.message.fmt = "str(detail)"
    /\ response.message.text # ""

C2_Witness ==
  /\ pc = "done" /\ callsite = "rpc" /\ IsRpcErrorResponse(response)
  /\ response.code = 500
  /\ response.message.fmt = "str(detail)"
  /\ LinesRead = 2

\* C3: every RPC response echoes the inbound jsonrpc ("2.0" when the key is
\* absent) and the inbound id (null when absent or null), and every response
\* produced for a body with a `method` key is such an envelope.
C3_EchoesJsonrpcAndId ==
  /\ response.kind = "rpc" =>
       /\ {"jsonrpc", "id"} \subseteq response.keys
       /\ response.jsonrpc = (IF body.jsonrpc = "<absent>" THEN "2.0" ELSE body.jsonrpc)
       /\ response.id = (IF body.id \in {"<absent>", "<null>"} THEN "<null>" ELSE body.id)
  /\ (pc = "done" /\ HasMethod(body) /\ response.kind # "unhandled") =>
       response.kind = "rpc"

C3_Witness ==
  /\ pc = "done" /\ callsite = "rpc"
  /\ IsRpcErrorResponse(response)
  /\ body.jsonrpc = "1.0" /\ response.jsonrpc = "1.0"
  /\ body.id = "7" /\ response.id = "7"

\* C4: the matches of a successful search are numbered strictly ascending, from
\* 1, within the lines of the file, one record per line at most, and the count
\* of search_keyword_tool is the number of matches; for search_keyword_tool
\* (while scanning and in its response) and for search_in_file under every
\* combination of its flags.
C4_MatchesWellNumbered ==
  /\ pc \in {"scan", "done"} => WellNumbered(matches, 1, LinesRead)
  /\ (pc = "done" /\ response.kind = "direct") =>
       /\ response.matches = matches
       /\ response.count = Len(response.matches)
  /\ (pc = "done" /\ response.kind = "rpc" /\ response.result.type = "text") =>
       /\ response.result.items = matches
       /\ response.result.count = Len(response.result.items)
  /\ (lib.called /\ lib.out.kind = "ok") =>
       WellNumbered(lib.out.matches, 1, Len(lib.file))

C4_Witness ==
  /\ pc = "done" /\ response.kind = "direct"
  /\ response.count = 2
  /\ response.matches[1].line = 1 /\ response.matches[2].line = 2
  /\ Occurrences(Lower(response.matches[2].text), Lower(args.m.keyword.s)) = 2

\* C5: a search of a path that does not exist, with non-empty file_path and
\* keyword, ends in a "File not found" error and never in a result: status 400
\* naming the file in the Direct variant, an envelope with `error` and no
\* `result` in the RPC variant.
SearchesMissingPath ==
  /\ callsite # "none" /\ args.t = "map"
  /\ args.m.file_path.t = "str" /\ args.m.file_path.s \notin ({""} \cup ExistingPaths)
  /\ args.m.keyword.t = "int" \/ (args.m.keyword.t = "str" /\ args.m.keyword.s # <<>>)
C5_MissingFileIsAnError ==
  (pc = "done" /\ SearchesMissingPath) =>
    /\ response.message.text = "File not found: "
    /\ response.message.arg = args.m.file_path.s
    /\ response.code = 400
    /\ ~IsSuccessResponse(response)
    /\ callsite = "direct" => response.kind = "http_error"
    /\ callsite = "rpc" =>
         /\ response.kind = "rpc"
         /\ "error" \in response.keys /\ "result" \notin response.keys

C5_Witness ==
  /\ pc = "done" /\ SearchesMissingPath /\ callsite = "rpc"
  /\ IsRpcErrorResponse(response)
  /\ response.message.arg = "missing.txt"

\* C6: a response is a success value or one error object, never both: an RPC
\* envelope holds exactly one of `result` and `error`, an error carries no
\* matches, and a scan that fails after some lines matched answers with the
\* error alone.
C6_ResultOrErrorNeverBoth ==
  pc = "done" =>
    /\ response.kind = "rpc" =>
         ("result" \in response.keys) # ("error" \in response.keys)
    /\ IsErrorResponse(response) =>
         /\ response.matches = <<>> /\ response.count = 0
         /\ response.result = NoResult
         /\ response.keys \cap {"result", "matches", "count"} = {}
    /\ IsSuccessResponse(response) =>
         /\ response.code = 0 /\ response.message = NoMessage
         /\ "error" \notin response.keys
    /\ ~(IsSuccessResponse(response) /\ IsErrorResponse(response))
    /\ response.kind = "unhandled" =>
         /\ response.matches = <<>> /\ response.result = NoResult
         /\ response.keys = {}

C6_Witness ==
  /\ pc = "done" /\ Len(matches) > 0
  /\ IsRpcErrorResponse(response)
  /\ response.code = 500

\* C7: a body is handled as the RPC variant exactly when it is a mapping with
\* a `method` key, whatever the value of `method` and the other keys; a body
\* without `method` never gets an RPC envelope, a body with it never gets a
\* Direct response.
C7_MethodKeyDecidesVariant ==
  /\ variant # "none" => (variant = "rpc" <=> (body.isMap /\ body.method # "<absent>"))
  /\ pc = "done" =>
       /\ response.kind = "rpc" => (body.isMap /\ body.method # "<absent>")
       /\ response.kind \in {"direct", "http_error"} =>
            ~(body.isMap /\ body.method # "<absent>")
       /\ callsite = "rpc" <=> (variant = "rpc" /\ callsite # "none")

C7_Witness ==
  /\ pc = "done" /\ body.method = "<null>" /\ body.tool = "search_keyword"
  /\ body.args.t = "map"
  /\ IsRpcErrorResponse(response)
  /\ response.message = Plain("Method not found: ", "None")

\* C8: without regular expressions, every line search_in_file matches
\* case-sensitively it also matches case-insensitively.
LineNumbers(m) == {m[k].line : k \in 1..Len(m)}
C8_CaseInsensitiveIsSuperset ==
  (lib.called /\ ~lib.rx /\ lib.ci) =>
    LineNumbers(SearchInFile(lib.file, lib.keyword, FALSE, FALSE).matches)
      \subseteq LineNumbers(lib.out.matches)

\* C9 (as stated): in the Direct variant the arguments are those of `args`
\* whenever the key is present, those of `params` only when `args` is absent
\* (read here for keys that are absent or hold a mapping).
C9_ArgsByPresence ==
  (callsite = "direct" /\ body.args.t \in {"absent", "map"}
   /\ body.params.t \in {"absent", "map"}) =>
    args = (IF body.args.t # "absent" THEN body.args
            ELSE IF body.params.t # "absent" THEN [t |-> body.params.t,
                                                     m |-> body.params.m.direct]
            ELSE [t |-> "map", m |-> EmptyArgs])

\* C9 (amended): in the Direct variant the arguments are those of `args`
\* whenever its value is truthy (a non-empty mapping or list), those of `params`
\* when `args` is absent, null or empty and `params` is truthy, and the empty
\* mapping otherwise; a body whose `args` is present but empty and whose
\* `params` holds a valid file_path and keyword is searched with `params`.
C9_ArgsByTruthiness ==
  /\ callsite = "direct" =>
       args = (IF body.args.t = "list" \/ (body.args.t = "map" /\ body.args.m # EmptyArgs)
               THEN body.args
               ELSE IF body.params.t = "list"
                       \/ (body.params.t = "map" /\ body.params.m # NoParams)
               THEN [t |-> body.params.t, m |-> body.params.m.direct]
               ELSE [t |-> "map", m |-> EmptyArgs])
  /\ (pc = "done" /\ body.isMap /\ body.method = "<absent>"
      /\ body.tool = "search_keyword" /\ body.args = [t |-> "map", m |-> EmptyArgs]
      /\ body.params = [t |-> "map", m |-> [NoParams EXCEPT !.direct = ValidArgs.m]]) =>
       /\ response.message.text # "Missing 'file_path' or 'keyword' in args"
       /\ "open" \in {fsOps[k] : k \in 1..Len(fsOps)}

C9_Witness ==
  /\ pc = "done" /\ callsite = "direct"
  /\ body.args = [t |-> "map", m |-> EmptyArgs]
  /\ body.params = [t |-> "map", m |-> [NoParams EXCEPT !.direct = ValidArgs.m]]
  /\ response.kind = "direct" /\ response.count = 1

\* C10: a search whose file_path or keyword is absent or empty is rejected with
\* status 400 and touches no file; the existence check, the open and the reads
\* happen only once both arguments were found non-empty.
C10_ValidatedBeforeFileAccess ==
  /\ fsOps # <<>> =>
       /\ validated
       /\ args.t = "map"
       /\ args.m.file_path.t = "int" \/ args.m.file_path.s # ""
       /\ args.m.keyword.t = "int" \/ args.m.keyword.s # <<>>
       /\ args.m.file_path.t # "absent" /\ args.m.keyword.t # "absent"
  /\ (pc = "done" /\ callsite # "none" /\ args.t = "map"
      /\ (args.m.file_path.t = "absent" \/ args.m.file_path = [t |-> "str", s |-> ""]
          \/ args.m.keyword.t = "absent" \/ args.m.keyword = [t |-> "str", s |-> <<>>])) =>
       /\ IsErrorResponse(response)
       /\ response.code = 400
       /\ response.message.text = "Missing 'file_path' or 'keyword' in args"
       /\ fsOps = <<>>
       /\ ~validated

C10_Witness ==
  /\ pc = "done" /\ callsite = "direct" /\ args.t = "map"
  /\ args.m.file_path = [t |-> "str", s |-> "exists.txt"]
  /\ args.m.keyword = [t |-> "str", s |-> <<>>]
  /\ response.kind = "http_error" /\ response.code = 400
  /\ fsOps = <<>>

====
